---- MODULE Spec2Model ----
(***************************************************************************)
(* Tile indexing engine of coordinator-backend: the base-36 codec          *)
(* (utils.py), the level geometry, the grid bounds cache and the three     *)
(* TileService operations (services/tiles.py).                             *)
(*                                                                         *)
(* Representation of values:                                               *)
(*   - a Python str is a sequence of one-character strings;                *)
(*   - the outcome of a call is Raise(kind) or a Return of the value,      *)
(*     under a field named after the type of the value;                    *)
(*   - the float returned by get_tile_size_from_level is the dyadic        *)
(*     rational m / 2^e, kept as [m |-> m, e |-> e];                       *)
(*   - planar coordinates are fixed-point integers counting 1/Scale metre; *)
(*     every float the grid arithmetic produces for the modelled levels    *)
(*     is a multiple of 1/Scale, so the arithmetic is exact, as it is in   *)
(*     IEEE doubles for these magnitudes.                                  *)
(***************************************************************************)
EXTENDS Integers, Sequences, FiniteSets, TLC

VARIABLES grid_cache, call, result

vars == <<grid_cache, call, result>>

(***************************************************************************)
(* Bounds of the model.                                                    *)
(***************************************************************************)
\* longest str handed to from_base36 by the codec specification
MaxStrLen == 3
\* to_base36 is applied to every integer of -2..MaxNum and around powers of 36
MaxNum == 80
\* get_tile_size_from_level is applied to every level of -2..MaxSizeLevel
MaxSizeLevel == 20
\* the service operations are called with every level of -1..MaxLevel
MaxLevel == 1
\* generate_tiles is called with every level of -1..MaxGenLevel
MaxGenLevel == 0
\* _grid_for_level alone is called with every level of -1..MaxGridLevel
MaxGridLevel == 5
\* threads calling one TileService at the same time
NumThreads == 2

(***************************************************************************)
(* Outcomes of a call.                                                     *)
(***************************************************************************)
NoResult == [status |-> "none"]

ReturnStr(s) == [status |-> "return", str |-> s]

ReturnInt(n) == [status |-> "return", int |-> n]

ReturnFloat(f) == [status |-> "return", float |-> f]

ReturnGrid(grid) == [status |-> "return", grid |-> grid]

ReturnTile(tile) == [status |-> "return", tile |-> tile]

ReturnTiles(tiles) == [status |-> "return", tiles |-> tiles]

Raise(kind) == [status |-> "raise", error |-> kind]

IsReturn(r) == r.status = "return"

IsRaise(r, kind) == r.status = "raise" /\ r.error = kind

(***************************************************************************)
(* utils.py: the base-36 codec.                                            *)
(***************************************************************************)
_BASE36_ALPHABET ==
  << "0", "1", "2", "3", "4", "5", "6", "7", "8", "9",
     "A", "B", "C", "D", "E", "F", "G", "H", "I", "J", "K", "L", "M",
     "N", "O", "P", "Q", "R", "S", "T", "U", "V", "W", "X", "Y", "Z" >>

\* string.ascii_lowercase, position by position the lower case of the letters
\* of _BASE36_ALPHABET: what str.upper() maps from
AsciiLowercase ==
  << "a", "b", "c", "d", "e", "f", "g", "h", "i", "j", "k", "l", "m",
     "n", "o", "p", "q", "r", "s", "t", "u", "v", "w", "x", "y", "z" >>

\* the characters str.strip() removes (the ones the model's inputs use)
Whitespace == {" ", "\t"}

\* _BASE36_ALPHABET.index(char)
AlphabetIndex(char) ==
  (CHOOSE k \in 1..Len(_BASE36_ALPHABET) : _BASE36_ALPHABET[k] = char) - 1

\* str.upper() on one character
UpperChar(char) ==
  IF \E k \in 1..Len(AsciiLowercase) : AsciiLowercase[k] = char
  THEN _BASE36_ALPHABET[10 + (CHOOSE k \in 1..Len(AsciiLowercase) : AsciiLowercase[k] = char)]
  ELSE char

\* str.upper()
Upper(s) == [k \in 1..Len(s) |-> UpperChar(s[k])]

\* str.strip(): drop the leading and the trailing whitespace
Strip(s) ==
  LET keep == {k \in 1..Len(s) : s[k] \notin Whitespace}
  IN  IF keep = {} THEN << >>
      ELSE LET first == CHOOSE k \in keep : \A o \in keep : k <= o
               last  == CHOOSE k \in keep : \A o \in keep : o <= k
           IN  SubSeq(s, first, last)

\* mutant: the digits are joined without being reversed
Reverse_NotReversed(s) == s

\* reversed(digits) joined
Reverse(s) == [k \in 1..Len(s) |-> s[Len(s) + 1 - k]]

\* the while loop of to_base36: digits least significant first
RECURSIVE ToBase36Digits(_)
ToBase36Digits(number) ==
  IF number = 0 THEN << >>
  ELSE << _BASE36_ALPHABET[(number % 36) + 1] >> \o ToBase36Digits(number \div 36)

to_base36(number) ==
  IF number < 0 THEN Raise("InvalidInput")
  ELSE IF number = 0 THEN ReturnStr(<< _BASE36_ALPHABET[1] >>)
  ELSE ReturnStr(Reverse(ToBase36Digits(number)))

\* the for loop of from_base36: result = result * base + index(char)
RECURSIVE FromBase36Digits(_, _)
FromBase36Digits(value, acc) ==
  IF value = << >> THEN acc
  ELSE FromBase36Digits(Tail(value), acc * 36 + AlphabetIndex(Head(value)))

from_base36(value) ==
  IF value = << >> THEN Raise("InvalidInput")
  ELSE LET stripped == Upper(Strip(value))
           allowed == {_BASE36_ALPHABET[k] : k \in 1..Len(_BASE36_ALPHABET)}
       IN  IF \E k \in 1..Len(stripped) : stripped[k] \notin allowed
           THEN Raise("InvalidInput")
           ELSE ReturnInt(FromBase36Digits(stripped, 0))

(***************************************************************************)
(* services/tiles.py: level geometry.                                      *)
(***************************************************************************)
\* base_size = 100_000.0
base_size == 100000

\* 2**level is an int; dividing a float by it converts it to a float, which
\* raises OverflowError from 2**1024 on
FloatMaxExp == 1024

RECURSIVE Pow2(_)
Pow2(n) == IF n = 0 THEN 1 ELSE 2 * Pow2(n - 1)

\* the float 1.0
FloatOne == [m |-> 1, e |-> 0]

\* f >= 1.0 for the float m / 2^e with 0 < m < 2^31
FloatAtLeastOne(f) == f.e < 31 /\ f.m >= Pow2(f.e)

get_tile_size_from_level(level) ==
  IF level < 0 THEN Raise("InvalidLevel")
  ELSE IF level >= FloatMaxExp THEN Raise("OverflowError")
  ELSE LET tile_size == [m |-> base_size, e |-> level]
       IN  IF FloatAtLeastOne(tile_size) THEN ReturnFloat(tile_size) ELSE ReturnFloat(FloatOne)

(***************************************************************************)
(* Fixed constants of the grid (constants.py; the same values are set in   *)
(* script.py), in metres.                                                  *)
(***************************************************************************)
MARCO_ZERO_X == 5000000

MARCO_ZERO_Y == 10000000

Y_MAX_AREA == 12300000

Y_MIN_AREA == 6300000

X_MAX_AREA == 7330000

X_MIN_AREA == 2290000

(***************************************************************************)
(* Float arithmetic of the grid, in fixed point.                           *)
(***************************************************************************)
\* planar values count 1/Scale metre
Scale == Pow2(6)

\* the integer constant c (metres) as a planar value
Metres(c) == c * Scale

\* the float m / 2^e as a planar value
Fixed(f) == (f.m * Scale) \div Pow2(f.e)

\* math.floor(a / b), b > 0
Floor(a, b) == a \div b

\* math.ceil(a / b), b > 0
Ceil(a, b) == -((-a) \div b)

Max(a, b) == IF a >= b THEN a ELSE b

(***************************************************************************)
(* services/tiles.py: TileGrid.                                            *)
(***************************************************************************)
width(grid) == grid.max_i - grid.min_i + 1

height(grid) == grid.max_j - grid.min_j + 1

\* math.ceil(math.log2(n)), n >= 1
RECURSIVE CeilLog2(_)
CeilLog2(n) == IF n <= 1 THEN 0 ELSE 1 + CeilLog2((n + 1) \div 2)

hilbert_order(grid) == Max(1, CeilLog2(Max(width(grid), height(grid))))

(***************************************************************************)
(* TileService._grid_for_level.  A service call yields [out, cache]: its   *)
(* outcome and the _grid_cache it leaves.                                  *)
(***************************************************************************)
min_i_of(tile_size) ==
  Floor(Metres(X_MIN_AREA) - (Metres(MARCO_ZERO_X) - tile_size \div 2), tile_size)

min_j_of(tile_size) ==
  Floor(Metres(Y_MIN_AREA) - (Metres(MARCO_ZERO_Y) - tile_size \div 2), tile_size)

\* mutant: the "- 1" after the ceiling is forgotten
max_i_of_NoMinusOne(tile_size) ==
  Ceil(Metres(X_MAX_AREA) - (Metres(MARCO_ZERO_X) - tile_size \div 2), tile_size)

max_i_of(tile_size) ==
  Ceil(Metres(X_MAX_AREA) - (Metres(MARCO_ZERO_X) - tile_size \div 2), tile_size) - 1

\* mutant: the upper bound is floored like the lower one
max_j_of_Floored(tile_size) ==
  Floor(Metres(Y_MAX_AREA) - (Metres(MARCO_ZERO_Y) - tile_size \div 2), tile_size) - 1

max_j_of(tile_size) ==
  Ceil(Metres(Y_MAX_AREA) - (Metres(MARCO_ZERO_Y) - tile_size \div 2), tile_size) - 1

\* the TileGrid built on a cache miss
TileGrid(level, tile_size) ==
  [ level     |-> level,
    tile_size |-> tile_size,
    min_i     |-> min_i_of(Fixed(tile_size)),
    min_j     |-> min_j_of(Fixed(tile_size)),
    max_i     |-> max_i_of(Fixed(tile_size)),
    max_j     |-> max_j_of(Fixed(tile_size)) ]

\* mutant: a non-empty cache is taken to hold the grid that is asked for,
\* without looking at the level it was stored under
_grid_for_level_AnyEntry(cache, level) ==
  IF DOMAIN cache # {}
  THEN [out |-> ReturnGrid(cache[CHOOSE l \in DOMAIN cache : \A o \in DOMAIN cache : l <= o]),
        cache |-> cache]
  ELSE LET size == get_tile_size_from_level(level)
       IN  IF ~IsReturn(size)
           THEN [out |-> size, cache |-> cache]
           ELSE LET grid == TileGrid(level, size.float)
                IN  [out |-> ReturnGrid(grid), cache |-> cache @@ (level :> grid)]

_grid_for_level(cache, level) ==
  IF level \in DOMAIN cache
  THEN [out |-> ReturnGrid(cache[level]), cache |-> cache]
  ELSE LET size == get_tile_size_from_level(level)
       IN  IF ~IsReturn(size)
           THEN [out |-> size, cache |-> cache]
           ELSE LET grid == TileGrid(level, size.float)
                IN  [out |-> ReturnGrid(grid), cache |-> cache @@ (level :> grid)]

(***************************************************************************)
(* The curve primitive HilbertCurve(p, 2) of the hilbertcurve library      *)
(* (Skilling's transpose algorithm), on non-negative integers.             *)
(***************************************************************************)
RECURSIVE BitXor(_, _)
BitXor(a, b) ==
  IF a = 0 THEN b
  ELSE IF b = 0 THEN a
  ELSE (((a % 2) + (b % 2)) % 2) + 2 * BitXor(a \div 2, b \div 2)

RECURSIVE BitAnd(_, _)
BitAnd(a, b) ==
  IF a = 0 \/ b = 0 THEN 0
  ELSE ((a % 2) * (b % 2)) + 2 * BitAnd(a \div 2, b \div 2)

\* one pass of the inner "for i" loop body on axis i (1 or 2) of point x
HilbertStep(x, i, q) ==
  IF BitAnd(x[i], q) # 0
  THEN [x EXCEPT ![1] = BitXor(x[1], q - 1)]
  ELSE LET t == BitAnd(BitXor(x[1], x[i]), q - 1)
           y == [x EXCEPT ![1] = BitXor(x[1], t)]
       IN  [y EXCEPT ![i] = BitXor(y[i], t)]

\* "inverse undo excess work": q = m, m/2, ..., 2, axes in the order 1, 2
RECURSIVE InverseUndo(_, _)
InverseUndo(x, q) ==
  IF q <= 1 THEN x
  ELSE InverseUndo(HilbertStep(HilbertStep(x, 1, q), 2, q), q \div 2)

\* the t of the Gray encoding
RECURSIVE GrayMask(_, _)
GrayMask(v, q) ==
  IF q <= 1 THEN 0
  ELSE BitXor(IF BitAnd(v, q) # 0 THEN q - 1 ELSE 0, GrayMask(v, q \div 2))

\* _transpose_to_hilbert_integer: interleave the bits, axis 1 first
RECURSIVE Interleave(_, _, _)
Interleave(a, b, bits) ==
  IF bits = 0 THEN 0
  ELSE (2 * (a % 2)) + (b % 2) + (4 * Interleave(a \div 2, b \div 2, bits - 1))

\* _hilbert_integer_to_transpose: axis 1 takes the even positions from the top
RECURSIVE Deinterleave(_, _)
Deinterleave(h, bits) ==
  IF bits = 0 THEN <<0, 0>>
  ELSE LET rest == Deinterleave(h \div 4, bits - 1)
       IN  << (2 * rest[1]) + ((h \div 2) % 2), (2 * rest[2]) + (h % 2) >>

\* hilbert.distances_from_points([[i, j]])[0]
distance_from_point(p, i, j) ==
  LET m == Pow2(p - 1)
      u == InverseUndo(<<i, j>>, m)
      g == <<u[1], BitXor(u[2], u[1])>>
      t == GrayMask(g[2], m)
  IN  Interleave(BitXor(g[1], t), BitXor(g[2], t), p)

\* "undo excess work": q = 2, 4, ..., below z, axes in the order 2, 1
RECURSIVE Undo(_, _, _)
Undo(x, q, z) ==
  IF q >= z THEN x
  ELSE Undo(HilbertStep(HilbertStep(x, 2, q), 1, q), 2 * q, z)

\* hilbert.points_from_distances([distance])[0]
point_from_distance(p, distance) ==
  LET x == Deinterleave(distance, p)
      t == x[2] \div 2
      g == <<BitXor(x[1], t), BitXor(x[2], x[1])>>
  IN  Undo(g, 2, Pow2(p))

(***************************************************************************)
(* projections.py: the projection pair.  A WGS84 position is kept as the   *)
(* planar point the transformer maps it to, so the two functions are the   *)
(* exact inverse pair the engine assumes.                                  *)
(***************************************************************************)
wgs84_to_sirgas(lon, lat) == <<lon.albers, lat.albers>>

sirgas_to_wgs84(easting, northing) == <<[albers |-> easting], [albers |-> northing]>>

(***************************************************************************)
(* services/tiles.py: Tile.                                                *)
(***************************************************************************)
\* (x_min, y_min, x_max, y_max) of cell (i_idx, j_idx)
BBox(grid, i_idx, j_idx) ==
  LET tile_size == Fixed(grid.tile_size)
      x_min == (Metres(MARCO_ZERO_X) - tile_size \div 2) + i_idx * tile_size
      y_min == (Metres(MARCO_ZERO_Y) - tile_size \div 2) + j_idx * tile_size
  IN  <<x_min, y_min, x_min + tile_size, y_min + tile_size>>

Tile(tile_id, level, bbox, grid_coords, normalized_coords, hilbert_distance) ==
  [ tile_id           |-> tile_id,
    level             |-> level,
    bbox              |-> bbox,
    grid_coords       |-> grid_coords,
    normalized_coords |-> normalized_coords,
    hilbert_distance  |-> hilbert_distance ]

\* Tile.center
center(tile) ==
  <<(tile.bbox[1] + tile.bbox[3]) \div 2, (tile.bbox[2] + tile.bbox[4]) \div 2>>

(***************************************************************************)
(* list.sort(key=hilbert_distance): a stable sort, by binary insertion.    *)
(***************************************************************************)
\* where a tile of distance d goes in the sorted s: after every key <= d
RECURSIVE InsertionPoint(_, _, _, _)
InsertionPoint(s, d, lo, hi) ==
  IF lo > hi THEN lo
  ELSE LET mid == (lo + hi) \div 2
       IN  IF s[mid].hilbert_distance <= d
           THEN InsertionPoint(s, d, mid + 1, hi)
           ELSE InsertionPoint(s, d, lo, mid - 1)

Insert(s, tile) ==
  LET k == InsertionPoint(s, tile.hilbert_distance, 1, Len(s))
  IN  SubSeq(s, 1, k - 1) \o <<tile>> \o SubSeq(s, k, Len(s))

\* s with tiles[lo..hi] inserted in that order; the test on the length of
\* the left half always holds (an insertion adds one tile) and makes the left
\* half be evaluated before the right half is entered
RECURSIVE InsertAll(_, _, _, _)
InsertAll(s, tiles, lo, hi) ==
  IF lo > hi THEN s
  ELSE IF lo = hi THEN Insert(s, tiles[lo])
  ELSE LET mid == (lo + hi) \div 2
           left == InsertAll(s, tiles, lo, mid)
       IN  IF Len(left) = Len(s) + (mid - lo + 1)
           THEN InsertAll(left, tiles, mid + 1, hi)
           ELSE << >>

\* mutant: the list is returned in the order of the loops, not sorted
SortByDistance_NotSorted(tiles) == tiles

SortByDistance(tiles) == InsertAll(<< >>, tiles, 1, Len(tiles))

(***************************************************************************)
(* TileService.generate_tiles.                                             *)
(***************************************************************************)
\* the Tile the loop body appends for cell (i_idx, j_idx)
GeneratedTile(grid, level, i_idx, j_idx) ==
  LET normalized_i == i_idx - grid.min_i
      normalized_j == j_idx - grid.min_j
      hilbert_distance == distance_from_point(hilbert_order(grid), normalized_i, normalized_j)
  IN  Tile(to_base36(hilbert_distance).str, level, BBox(grid, i_idx, j_idx),
           <<i_idx, j_idx>>, <<normalized_i, normalized_j>>, hilbert_distance)

\* tiles after the nested loops: rows j_idx outside, columns i_idx inside
AppendedTiles(grid, level) ==
  [ k \in 1..(width(grid) * height(grid)) |->
      GeneratedTile(grid, level,
                    grid.min_i + ((k - 1) % width(grid)),
                    grid.min_j + ((k - 1) \div width(grid))) ]

\* what generate_tiles returns once it holds the grid
TilesOfGrid(grid, level) == SortByDistance(AppendedTiles(grid, level))

\* TilesOfGrid of the grids that _grid_for_level builds for the levels
\* 0..n, evaluated once: entry level + 1 is <<grid, tiles>>
RECURSIVE TilesUpTo(_)
TilesUpTo(n) ==
  IF n < 0 THEN << >>
  ELSE LET grid == TileGrid(n, get_tile_size_from_level(n).float)
       IN  Append(TilesUpTo(n - 1), <<grid, TilesOfGrid(grid, n)>>)

TilesOfLevel == TilesUpTo(MaxGenLevel)

generate_tiles(cache, level) ==
  LET g == _grid_for_level(cache, level)
  IN  IF ~IsReturn(g.out) THEN g
      ELSE LET grid == g.out.grid
               tiles == IF level + 1 \in DOMAIN TilesOfLevel /\ TilesOfLevel[level + 1][1] = grid
                        THEN TilesOfLevel[level + 1][2]
                        ELSE TilesOfGrid(grid, level)
           IN  [out |-> ReturnTiles(tiles), cache |-> g.cache]

(***************************************************************************)
(* TileService.tile_from_id.                                               *)
(***************************************************************************)
\* mutant: the absolute row is offset by min_i instead of min_j
TileOfDistance_WrongOffset(grid, level, tile_id, distance) ==
  LET point == point_from_distance(hilbert_order(grid), distance)
      normalized_i == point[1]
      normalized_j == point[2]
      i_idx == normalized_i + grid.min_i
      j_idx == normalized_j + grid.min_i
  IN  IF normalized_i >= width(grid) \/ normalized_j >= height(grid)
      THEN Raise("UnmappedTile")
      ELSE ReturnTile(Tile(Upper(tile_id), level, BBox(grid, i_idx, j_idx),
                       <<i_idx, j_idx>>, <<normalized_i, normalized_j>>, distance))

\* in range: the point of the distance is looked up and checked against the grid
TileOfDistance(grid, level, tile_id, distance) ==
  LET point == point_from_distance(hilbert_order(grid), distance)
      normalized_i == point[1]
      normalized_j == point[2]
      i_idx == normalized_i + grid.min_i
      j_idx == normalized_j + grid.min_j
  IN  IF normalized_i >= width(grid) \/ normalized_j >= height(grid)
      THEN Raise("UnmappedTile")
      ELSE ReturnTile(Tile(Upper(tile_id), level, BBox(grid, i_idx, j_idx),
                       <<i_idx, j_idx>>, <<normalized_i, normalized_j>>, distance))

\* mutant: the curve is taken one distance too long
max_distance_OneMore(grid) == Pow2(hilbert_order(grid)) * Pow2(hilbert_order(grid)) + 1

\* max_distance = (2 ** grid.hilbert_order) ** 2
max_distance(grid) == Pow2(hilbert_order(grid)) * Pow2(hilbert_order(grid))

tile_from_id(cache, level, tile_id) ==
  LET g == _grid_for_level(cache, level)
  IN  IF ~IsReturn(g.out) THEN g
      ELSE LET grid == g.out.grid
               distance == from_base36(tile_id)
           IN  IF ~IsReturn(distance) THEN [out |-> distance, cache |-> g.cache]
               ELSE IF ~(0 <= distance.int /\ distance.int < max_distance(grid))
               THEN [out |-> Raise("IdentifierOutOfRange"), cache |-> g.cache]
               ELSE [out |-> TileOfDistance(grid, level, tile_id, distance.int),
                     cache |-> g.cache]

(***************************************************************************)
(* TileService.tile_for_coordinates.                                       *)
(***************************************************************************)
\* mutant: the upper bounds are tested with > instead of >=
TileOfCell_OffByOne(grid, level, i_idx, j_idx) ==
  LET normalized_i == i_idx - grid.min_i
      normalized_j == j_idx - grid.min_j
  IN  IF normalized_i < 0 \/ normalized_j < 0
         \/ normalized_i > width(grid) \/ normalized_j > height(grid)
      THEN Raise("CoordinateOutOfArea")
      ELSE LET distance == distance_from_point(hilbert_order(grid), normalized_i, normalized_j)
           IN  ReturnTile(Tile(to_base36(distance).str, level, BBox(grid, i_idx, j_idx),
                           <<i_idx, j_idx>>, <<normalized_i, normalized_j>>, distance))

\* inside the grid: the Tile of cell (i_idx, j_idx)
TileOfCell(grid, level, i_idx, j_idx) ==
  LET normalized_i == i_idx - grid.min_i
      normalized_j == j_idx - grid.min_j
  IN  IF normalized_i < 0 \/ normalized_j < 0
         \/ normalized_i >= width(grid) \/ normalized_j >= height(grid)
      THEN Raise("CoordinateOutOfArea")
      ELSE LET distance == distance_from_point(hilbert_order(grid), normalized_i, normalized_j)
           IN  ReturnTile(Tile(to_base36(distance).str, level, BBox(grid, i_idx, j_idx),
                           <<i_idx, j_idx>>, <<normalized_i, normalized_j>>, distance))

\* mutant: the cell index is rounded up instead of down
CellOf_Ceil(tile_size, easting, northing) ==
  << Ceil(easting - (Metres(MARCO_ZERO_X) - tile_size \div 2), tile_size),
     Ceil(northing - (Metres(MARCO_ZERO_Y) - tile_size \div 2), tile_size) >>

\* i_idx, j_idx = floor((coordinate - origin) / tile_size)
CellOf(tile_size, easting, northing) ==
  << Floor(easting - (Metres(MARCO_ZERO_X) - tile_size \div 2), tile_size),
     Floor(northing - (Metres(MARCO_ZERO_Y) - tile_size \div 2), tile_size) >>

tile_for_coordinates(cache, level, lon, lat) ==
  LET planar == wgs84_to_sirgas(lon, lat)
      size == get_tile_size_from_level(level)
  IN  IF ~IsReturn(size) THEN [out |-> size, cache |-> cache]
      ELSE LET cell == CellOf(Fixed(size.float), planar[1], planar[2])
               g == _grid_for_level(cache, level)
           IN  IF ~IsReturn(g.out) THEN g
               ELSE [out |-> TileOfCell(g.out.grid, level, cell[1], cell[2]),
                     cache |-> g.cache]

(***************************************************************************)
(* Inputs of the codec specification.                                      *)
(***************************************************************************)
CodecChars == {"0", "1", "z", "A", " ", "-"}

RECURSIVE StrUpTo(_, _)
StrUpTo(chars, n) ==
  IF n = 0 THEN {<< >>}
  ELSE LET shorter == StrUpTo(chars, n - 1)
       IN  shorter \cup {Append(s, c) : s \in shorter, c \in chars}

CodecStrings == StrUpTo(CodecChars, MaxStrLen)

RECURSIVE Pow36(_)
Pow36(n) == IF n = 0 THEN 1 ELSE 36 * Pow36(n - 1)

CodecNumbers ==
  (-2..MaxNum) \cup {Pow36(k) + d : k \in 1..5, d \in {-1, 0, 1}}

SizeLevels ==
  (-2..MaxSizeLevel) \cup {FloatMaxExp - 1, FloatMaxExp, FloatMaxExp + 1}

(***************************************************************************)
(* State machine.                                                          *)
(***************************************************************************)
Init ==
  /\ grid_cache = << >>
  /\ call = [fn |-> "none"]
  /\ result = NoResult

ToBase36(number) ==
  /\ call' = [fn |-> "to_base36", number |-> number]
  /\ result' = to_base36(number)
  /\ UNCHANGED grid_cache

FromBase36(value) ==
  /\ call' = [fn |-> "from_base36", value |-> value]
  /\ result' = from_base36(value)
  /\ UNCHANGED grid_cache

GetTileSizeFromLevel(level) ==
  /\ call' = [fn |-> "get_tile_size_from_level", level |-> level]
  /\ result' = get_tile_size_from_level(level)
  /\ UNCHANGED grid_cache

NextCodec ==
  \/ \E number \in CodecNumbers : ToBase36(number)
  \/ \E value \in CodecStrings : FromBase36(value)
  \/ \E level \in SizeLevels : GetTileSizeFromLevel(level)

SpecCodec == Init /\ [][NextCodec]_vars

(***************************************************************************)
(* Inputs of the service specification.                                    *)
(***************************************************************************)
Levels == -1..MaxLevel

GenLevels == -1..MaxGenLevel

GridLevels == -1..MaxGridLevel

\* the grid of a level, whatever the cache holds
PureGrid(level) == TileGrid(level, get_tile_size_from_level(level).float)

\* curve distances: the first one, the one of the last cell of the level-0
\* grid, and the last one and the first one past the curve of every level
IdDistances ==
  {0, 2654}
    \cup {max_distance(PureGrid(level)) - d : level \in 0..MaxLevel, d \in {0, 1}}

Lower(s) ==
  [ k \in 1..Len(s) |->
      IF AlphabetIndex(s[k]) >= 10 THEN AsciiLowercase[AlphabetIndex(s[k]) - 9] ELSE s[k] ]

\* the spellings of one identifier that from_base36 decodes to the same value
Spellings(s) == {s, Lower(s), <<" ">> \o s \o <<" ">>, <<"0">> \o s}

TileIds ==
  UNION {Spellings(to_base36(d).str) : d \in IdDistances}
    \cup {<< >>, <<" ">>, <<"-">>}

\* planar sample points: the outer edges of the level-0 grid, the lower left
\* corner of its cell (0, 0), and the points one unit below each
XSamples ==
  LET grid == PureGrid(0)
  IN  { x - o : x \in { BBox(grid, grid.min_i, 0)[1], BBox(grid, 0, 0)[1],
                        BBox(grid, grid.max_i, 0)[3] },
                o \in {0, 1} }

YSamples ==
  LET grid == PureGrid(0)
  IN  { y - o : y \in { BBox(grid, 0, grid.min_j)[2], BBox(grid, 0, 0)[2],
                        BBox(grid, 0, grid.max_j)[4] },
                o \in {0, 1} }

Lons == {sirgas_to_wgs84(x, 0)[1] : x \in XSamples}

Lats == {sirgas_to_wgs84(0, y)[2] : y \in YSamples}

(***************************************************************************)
(* The service operations as actions.                                      *)
(***************************************************************************)
GridForLevel(level) ==
  LET r == _grid_for_level(grid_cache, level)
  IN  /\ call' = [fn |-> "_grid_for_level", level |-> level]
      /\ result' = r.out
      /\ grid_cache' = r.cache

GenerateTiles(level) ==
  LET r == generate_tiles(grid_cache, level)
  IN  /\ call' = [fn |-> "generate_tiles", level |-> level]
      /\ result' = r.out
      /\ grid_cache' = r.cache

TileFromId(level, tile_id) ==
  LET r == tile_from_id(grid_cache, level, tile_id)
  IN  /\ call' = [fn |-> "tile_from_id", level |-> level, tile_id |-> tile_id]
      /\ result' = r.out
      /\ grid_cache' = r.cache

TileForCoordinates(level, lon, lat) ==
  LET r == tile_for_coordinates(grid_cache, level, lon, lat)
  IN  /\ call' = [fn |-> "tile_for_coordinates", level |-> level, lon |-> lon, lat |-> lat]
      /\ result' = r.out
      /\ grid_cache' = r.cache

Next ==
  \/ \E level \in GenLevels : GenerateTiles(level)
  \/ \E level \in Levels, tile_id \in TileIds : TileFromId(level, tile_id)
  \/ \E level \in Levels, lon \in Lons, lat \in Lats : TileForCoordinates(level, lon, lat)

Spec == Init /\ [][Next]_vars

NextGrid == \E level \in GridLevels : GridForLevel(level)

SpecGrid == Init /\ [][NextGrid]_vars

(***************************************************************************)
(* Threads calling one TileService.  Nothing in TileService takes a lock,  *)
(* so a thread can be preempted between two accesses of self._grid_cache.  *)
(* Here call[t] is the call thread t is in, with its position pc, and      *)
(* result[t] holds what _grid_for_level handed to t (grid) and what the    *)
(* operation returned or raised (out).  One step of a thread runs up to    *)
(* and including its next access of self._grid_cache:                      *)
(*   "idle", "done"  not in a call;                                        *)
(*   "load"          `level in self._grid_cache` was True, the read of     *)
(*                   self._grid_cache[level] is next;                      *)
(*   "miss"          the test was False, lines 67-82 are next.             *)
(***************************************************************************)
Threads == 1..NumThreads

Idle == [fn |-> "none", pc |-> "idle"]

NoResults == [grid |-> NoResult, out |-> NoResult]

\* the zero marker, as a WGS84 position
ZeroMarker == sirgas_to_wgs84(Metres(MARCO_ZERO_X), Metres(MARCO_ZERO_Y))

ThreadTileIds == {<<"0">>, <<"-">>}

\* the calls a thread makes
ThreadCalls ==
  {[fn |-> "generate_tiles", pc |-> "idle", level |-> level] : level \in GenLevels}
    \cup {[fn |-> "tile_from_id", pc |-> "idle", level |-> level, tile_id |-> tile_id] :
            level \in GenLevels, tile_id \in ThreadTileIds}
    \cup {[fn |-> "tile_for_coordinates", pc |-> "idle", level |-> level,
           lon |-> ZeroMarker[1], lat |-> ZeroMarker[2]] : level \in GenLevels}

\* the operation c run by a thread that finds cache when it reaches
\* _grid_for_level and is not preempted from there on
RunCall(cache, c) ==
  IF c.fn = "generate_tiles" THEN generate_tiles(cache, c.level)
  ELSE IF c.fn = "tile_from_id" THEN tile_from_id(cache, c.level, c.tile_id)
  ELSE tile_for_coordinates(cache, c.level, c.lon, c.lat)

InitThreads ==
  /\ grid_cache = << >>
  /\ call = [t \in Threads |-> Idle]
  /\ result = [t \in Threads |-> NoResults]

\* thread t calls c and runs to the test `level in self._grid_cache`;
\* tile_for_coordinates calls get_tile_size_from_level before that
Enter(t, c) ==
  /\ call[t].pc \in {"idle", "done"}
  /\ IF c.fn = "tile_for_coordinates" /\ ~IsReturn(get_tile_size_from_level(c.level))
     THEN /\ call' = [call EXCEPT ![t] = [c EXCEPT !.pc = "done"]]
          /\ result' = [result EXCEPT ![t] =
                          [grid |-> NoResult, out |-> get_tile_size_from_level(c.level)]]
     ELSE /\ call' = [call EXCEPT ![t] =
                        [c EXCEPT !.pc = IF c.level \in DOMAIN grid_cache
                                         THEN "load" ELSE "miss"]]
          /\ result' = [result EXCEPT ![t] = NoResults]
  /\ UNCHANGED grid_cache

\* return self._grid_cache[level], then the rest of the operation
Load(t) ==
  /\ call[t].pc = "load"
  /\ LET level == call[t].level
         r == RunCall(level :> grid_cache[level], call[t])
     IN  /\ result' = [result EXCEPT ![t] =
                         [grid |-> ReturnGrid(grid_cache[level]), out |-> r.out]]
         /\ call' = [call EXCEPT ![t].pc = "done"]
  /\ UNCHANGED grid_cache

\* lines 67-82 after a failed test: the grid is built and stored whatever
\* self._grid_cache holds by now, then the rest of the operation
Miss(t) ==
  /\ call[t].pc = "miss"
  /\ LET level == call[t].level
         g == _grid_for_level(<< >>, level)
     IN  IF ~IsReturn(g.out)
         THEN /\ result' = [result EXCEPT ![t] = [grid |-> NoResult, out |-> g.out]]
              /\ UNCHANGED grid_cache
         ELSE /\ grid_cache' = g.cache @@ grid_cache
              /\ result' = [result EXCEPT ![t] =
                              [grid |-> g.out, out |-> RunCall(g.cache, call[t]).out]]
  /\ call' = [call EXCEPT ![t].pc = "done"]

NextThreads ==
  \/ \E t \in Threads, c \in ThreadCalls : Enter(t, c)
  \/ \E t \in Threads : Load(t)
  \/ \E t \in Threads : Miss(t)

SpecThreads == InitThreads /\ [][NextThreads]_vars

(***************************************************************************)
(* Properties of the codec and of the level geometry (SpecCodec).          *)
(***************************************************************************)
Base36Chars == {_BASE36_ALPHABET[k] : k \in 1..Len(_BASE36_ALPHABET)}

\* s is empty once its surrounding whitespace is trimmed
EmptyAfterTrim(s) == \A k \in 1..Len(s) : s[k] \in Whitespace

\* s, trimmed, holds a character that is no base-36 digit in either case
HasInvalidChar(s) ==
  \E k \in 1..Len(Strip(s)) : UpperChar(Strip(s)[k]) \notin Base36Chars

\* C4: from_base36 fails with InvalidInput for every string that is empty
\* after trimming (the empty string and every whitespace-only string) and
\* for every string that, trimmed, holds a character outside 0-9A-Z in either
\* case; it returns an integer only for the other strings.
C4_FromBase36Rejects ==
  call.fn = "from_base36" =>
    IF EmptyAfterTrim(call.value) \/ HasInvalidChar(call.value)
    THEN IsRaise(result, "InvalidInput")
    ELSE IsReturn(result) /\ result.int \in Nat

\* C5: to_base36 of a negative integer fails with InvalidInput; for n >= 0
\* from_base36(to_base36(n)) = n, to_base36(0) = "0", and for n > 0 the
\* encoding has no leading "0".
C5_CodecRoundTrip ==
  call.fn = "to_base36" =>
    IF call.number < 0
    THEN IsRaise(result, "InvalidInput")
    ELSE /\ IsReturn(result)
         /\ from_base36(result.str) = ReturnInt(call.number)
         /\ call.number = 0 => result.str = <<"0">>
         /\ call.number > 0 => result.str[1] # "0"

\* a number of three base-36 digits was encoded
C5_Witness ==
  /\ call.fn = "to_base36"
  /\ call.number > 36 * 36
  /\ IsReturn(result)
  /\ Len(result.str) = 3

\* C9: get_tile_size_from_level fails with InvalidLevel for L < 0, returns
\* exactly 100000 / 2^L for L = 0..16, and exactly 1.0 for every L >= 17.
C9_LevelSizeClamp ==
  call.fn = "get_tile_size_from_level" =>
    IF call.level < 0 THEN IsRaise(result, "InvalidLevel")
    ELSE IF call.level <= 16 THEN result = ReturnFloat([m |-> base_size, e |-> call.level])
    ELSE result = ReturnFloat(FloatOne)

(***************************************************************************)
(* Properties of the grid bounds (SpecGrid).                               *)
(***************************************************************************)
\* the levels the coverage property is stated for
CoverageLevels == {0, 1, 2, 3, 5}

\* the tiles of the cells of grid cover the coverage rectangle: the outer
\* edges reach the rectangle's, and neighbouring cells share their edge
Covers(grid) ==
  /\ BBox(grid, grid.min_i, grid.min_j)[1] <= Metres(X_MIN_AREA)
  /\ BBox(grid, grid.min_i, grid.min_j)[2] <= Metres(Y_MIN_AREA)
  /\ BBox(grid, grid.max_i, grid.max_j)[3] >= Metres(X_MAX_AREA)
  /\ BBox(grid, grid.max_i, grid.max_j)[4] >= Metres(Y_MAX_AREA)
  /\ \A i \in grid.min_i..(grid.max_i - 1) :
       BBox(grid, i, grid.min_j)[3] = BBox(grid, i + 1, grid.min_j)[1]
  /\ \A j \in grid.min_j..(grid.max_j - 1) :
       BBox(grid, grid.min_i, j)[4] = BBox(grid, grid.min_i, j + 1)[2]

\* C7: for every level of {0, 1, 2, 3, 5} the bounding boxes of the grid's
\* cells cover the whole coverage rectangle, with no gap between
\* consecutive cells.
C7_CoverageComplete ==
  \A level \in DOMAIN grid_cache \cap CoverageLevels : Covers(grid_cache[level])

\* the grids of all five levels were built, the last one by this call
C7_Witness ==
  /\ CoverageLevels \subseteq DOMAIN grid_cache
  /\ call.fn = "_grid_for_level"
  /\ call.level = 5
  /\ IsReturn(result)
  /\ BBox(result.grid, result.grid.max_i, 0)[3] > Metres(X_MAX_AREA)

(***************************************************************************)
(* Properties of the service operations (Spec).                            *)
(***************************************************************************)
GeneratedList == call.fn = "generate_tiles" /\ IsReturn(result)

\* C1: every Tile of generate_tiles(L) is what tile_from_id(L, its tile_id)
\* returns, field by field.
C1_RoundTripIdentity ==
  GeneratedList =>
    \A k \in 1..Len(result.tiles) :
      tile_from_id(grid_cache, call.level, result.tiles[k].tile_id).out
        = ReturnTile(result.tiles[k])

\* a level was generated whose tiles include identifiers of three characters
C1_Witness ==
  /\ GeneratedList
  /\ Len(result.tiles) > 1296
  /\ Len(result.tiles[Len(result.tiles)].tile_id) = 3

\* C2: the centre of every Tile of generate_tiles(L), handed to
\* tile_for_coordinates at level L, yields a Tile of the same tile_id.
C2_CoordinateConsistency ==
  GeneratedList =>
    \A k \in 1..Len(result.tiles) :
      LET c == center(result.tiles[k])
          geo == sirgas_to_wgs84(c[1], c[2])
          found == tile_for_coordinates(grid_cache, call.level, geo[1], geo[2]).out
      IN  IsReturn(found) /\ found.tile.tile_id = result.tiles[k].tile_id

\* a level was generated, and the centre of its first tile lies strictly
\* inside the tile
C2_Witness ==
  /\ GeneratedList
  /\ Len(result.tiles) > 0
  /\ result.tiles[1].bbox[1] < center(result.tiles[1])[1]
  /\ center(result.tiles[1])[1] < result.tiles[1].bbox[3]

\* 4^p
Pow4(p) == Pow2(2 * p)

\* C3: when tile_from_id(L, id) has decoded id to d: d >= 4^p fails with
\* IdentifierOutOfRange; d < 4^p whose curve point has column >= width or
\* row >= height fails with UnmappedTile; a Tile is returned only otherwise.
C3_BoundaryRejection ==
  (call.fn = "tile_from_id" /\ call.level >= 0 /\ IsReturn(from_base36(call.tile_id))) =>
    LET d == from_base36(call.tile_id).int
        grid == PureGrid(call.level)
        p == hilbert_order(grid)
        point == point_from_distance(p, d)
    IN  IF d >= Pow4(p) THEN IsRaise(result, "IdentifierOutOfRange")
        ELSE IF point[1] >= width(grid) \/ point[2] >= height(grid)
        THEN IsRaise(result, "UnmappedTile")
        ELSE IsReturn(result)

\* an identifier that decodes to exactly 4^p was refused as out of range
C3_Witness ==
  /\ call.fn = "tile_from_id"
  /\ call.level >= 0
  /\ IsReturn(from_base36(call.tile_id))
  /\ from_base36(call.tile_id).int = Pow4(hilbert_order(PureGrid(call.level)))
  /\ IsRaise(result, "IdentifierOutOfRange")

\* tile_id is the canonical encoding of hilbert_distance
Canonical(tile) == tile.tile_id = to_base36(tile.hilbert_distance).str

\* C6: every Tile returned by generate_tiles, tile_from_id or
\* tile_for_coordinates has tile_id = to_base36(hilbert_distance), whatever
\* accepted spelling of the identifier was passed to tile_from_id.
C6_CanonicalIdentifier ==
  /\ (call.fn \in {"tile_from_id", "tile_for_coordinates"} /\ IsReturn(result))
       => Canonical(result.tile)
  /\ GeneratedList => \A k \in 1..Len(result.tiles) : Canonical(result.tiles[k])

\* C8: generate_tiles(L) returns exactly width x height tiles, one per cell
\* of [min_i, max_i] x [min_j, max_j]; at level 0 these are 51 x 61 = 3111
\* tiles for min_i = -27, max_i = 23, min_j = -37, max_j = 23, and the tile
\* of cell (0, 0) contains the zero marker.
C8_GenerationCount ==
  GeneratedList =>
    LET grid == grid_cache[call.level]
        tiles == result.tiles
    IN  /\ Len(tiles) = width(grid) * height(grid)
        /\ {tiles[k].grid_coords : k \in 1..Len(tiles)}
             = (grid.min_i..grid.max_i) \X (grid.min_j..grid.max_j)
        /\ call.level = 0 =>
             /\ <<grid.min_i, grid.max_i, grid.min_j, grid.max_j>> = <<-27, 23, -37, 23>>
             /\ Len(tiles) = 3111
             /\ \E k \in 1..Len(tiles) :
                  /\ tiles[k].grid_coords = <<0, 0>>
                  /\ tiles[k].bbox[1] <= Metres(MARCO_ZERO_X)
                  /\ Metres(MARCO_ZERO_X) < tiles[k].bbox[3]
                  /\ tiles[k].bbox[2] <= Metres(MARCO_ZERO_Y)
                  /\ Metres(MARCO_ZERO_Y) < tiles[k].bbox[4]

\* level 0 was generated
C8_Witness ==
  /\ GeneratedList
  /\ call.level = 0
  /\ Len(result.tiles) = 51 * 61

\* the planar point lies in the footprint of the level's grid, edges half open
InGrid(grid, x, y) ==
  /\ BBox(grid, grid.min_i, grid.min_j)[1] <= x
  /\ x < BBox(grid, grid.max_i, grid.max_j)[3]
  /\ BBox(grid, grid.min_i, grid.min_j)[2] <= y
  /\ y < BBox(grid, grid.max_i, grid.max_j)[4]

\* C10: tile_for_coordinates at a level L >= 0 returns, for a point whose
\* cell lies in the grid, a Tile with xMin <= x < xMax and yMin <= y < yMax,
\* and fails with CoordinateOutOfArea for every other point.
C10_HalfOpenMembership ==
  (call.fn = "tile_for_coordinates" /\ call.level >= 0) =>
    LET planar == wgs84_to_sirgas(call.lon, call.lat)
        x == planar[1]
        y == planar[2]
    IN  IF InGrid(PureGrid(call.level), x, y)
        THEN /\ IsReturn(result)
             /\ result.tile.bbox[1] <= x
             /\ x < result.tile.bbox[3]
             /\ result.tile.bbox[2] <= y
             /\ y < result.tile.bbox[4]
        ELSE IsRaise(result, "CoordinateOutOfArea")

\* a point on the edge shared by two tiles was given to the right-hand one
C10_Witness ==
  /\ call.fn = "tile_for_coordinates"
  /\ IsReturn(result)
  /\ result.tile.bbox[1] = wgs84_to_sirgas(call.lon, call.lat)[1]
  /\ result.tile.grid_coords[1] > grid_cache[call.level].min_i

\* the tiles as the nested loops of generate_tiles append them, before the sort
LoopOrder == AppendedTiles(grid_cache[call.level], call.level)

StrictlyIncreasing(tiles) ==
  \A k \in 1..(Len(tiles) - 1) :
    tiles[k].hilbert_distance < tiles[k + 1].hilbert_distance

WarmCache == [level \in 0..MaxLevel |-> PureGrid(level)]

\* the cache holds only levels >= 0, each with the grid of its level, and the
\* outcome of the last call is the one the call has on a new service and the
\* one it has on a service that holds every grid
CacheIsTransparent ==
  /\ \A level \in DOMAIN grid_cache :
       level >= 0 /\ grid_cache[level] = PureGrid(level)
  /\ call.fn # "none" =>
       /\ result = RunCall(<< >>, call).out
       /\ result = RunCall(WarmCache, call).out

\* a call changes the cache at most by adding the entry of its level, and
\* not at all when it fails with InvalidLevel
CacheStep ==
  /\ \A level \in DOMAIN grid_cache :
       level \in DOMAIN grid_cache' /\ grid_cache'[level] = grid_cache[level]
  /\ DOMAIN grid_cache' \subseteq DOMAIN grid_cache \cup {call'.level}
  /\ IsRaise(result', "InvalidLevel") => grid_cache' = grid_cache

\* C13: after any sequence of generate_tiles, tile_from_id and
\* tile_for_coordinates calls, successful or failing, _grid_cache holds only
\* levels >= 0, each with the pure grid of its level; a call that fails with
\* InvalidLevel leaves the cache unchanged, any other call adds at most the
\* entry of its own level; and the outcome of every call is the same on a
\* cold and on a warm cache.
C13_CacheInvariant == []CacheIsTransparent /\ [][CacheStep]_vars

\* tile_from_id failed on a malformed identifier at a level above 0 whose
\* grid it left in a cache that already held level 0
C13_Witness ==
  /\ call.fn = "tile_from_id"
  /\ IsRaise(result, "InvalidInput")
  /\ call.level > 0
  /\ {0, call.level} \subseteq DOMAIN grid_cache

(***************************************************************************)
(* Properties of the grid cache under concurrent calls (SpecThreads).      *)
(***************************************************************************)
\* thread t executes self._grid_cache[level] = grid in this step
Stores(t) == call[t].pc = "miss" /\ IsReturn(result'[t].grid)

\* C11: under any interleaving of concurrent generate_tiles, tile_from_id
\* and tile_for_coordinates calls, a level of _grid_cache is stored at most
\* once (no store to a level that already has an entry), an entry is never
\* removed or replaced, and the grid a thread obtains for a level is the
\* entry the cache holds for it.
C11_GridCacheWriteOnce ==
  [][ /\ \A t \in Threads : Stores(t) => call[t].level \notin DOMAIN grid_cache
      /\ \A level \in DOMAIN grid_cache :
           level \in DOMAIN grid_cache' /\ grid_cache'[level] = grid_cache[level]
      /\ \A t \in Threads :
           IsReturn(result'[t].grid) => result'[t].grid.grid = grid_cache'[call'[t].level]
    ]_vars

====
